---- MODULE Spec2Model ----
(***************************************************************************)
(* Segment-tree buddy allocator (SegTreeAlloc<U, H>) and its guarded       *)
(* global-allocator adapter (SegTreeAllocator).                            *)
(*                                                                         *)
(* The core is modelled as the Rust code computes it: a byte array `tree`  *)
(* of 2^(H+1) slots, lvl_for_size, the root test and the left-first walk   *)
(* of alloc, the node computation of dealloc, and push_up.  The driver of  *)
(* the core (the bookkeeping of tests::random) supplies the calls: alloc   *)
(* of any size of a small set, dealloc of a live allocation with its       *)
(* recorded size.                                                          *)
(***************************************************************************)
EXTENDS Integers, Naturals, Sequences, FiniteSets, Bags, TLC

\* ------------------------------------------------------------------ bounds
\* The const parameters of SegTreeAlloc<U, H> range over H in 1..MaxH and
\* U in {1, 2^LogU} (U is a positive power of two; U = 1 is tests::simple).
MaxH == 2
LogU == 1
\* Width of usize in the model (the code's usize is 64 bits wide; only the
\* overflow of checked_next_power_of_two depends on it).
UsizeBits == 12
\* The driver holds at most MaxLive allocations at a time.
MaxLive == 4
\* Threads calling the adapter, and the page size 2^LogPage of the anonymous
\* mapping.
NThreads == 2
\* The height of the adapter's heap (type Heap = SegTreeAlloc<64, 24>) in the
\* model; its unit is 2^LogU.
AdapterH == 1
LogPage == 2

\* ------------------------------------------------------------- arithmetic
RECURSIVE Pow2(_)
Pow2(n) == IF n = 0 THEN 1 ELSE 2 * Pow2(n - 1)

\* the depth of node n (the root, node 1, has depth 0)
RECURSIVE Depth(_)
Depth(n) == IF n <= 1 THEN 0 ELSE 1 + Depth(n \div 2)

Min(a, b) == IF a <= b THEN a ELSE b
Max(a, b) == IF a >= b THEN a ELSE b

\* usize::MAX
SIZE_MAX == Pow2(UsizeBits) - 1

\* type Mask = u8; const USED: Mask = 0x80
USED == 128
MaskMod == 256

VARIABLES
    U,          \* const U: usize, the unit size
    H,          \* const H: u8, the tree height
    tree,       \* SegTreeAlloc::tree, [Mask; 1 << (H + 1)]
    alloc_map,  \* tests::random's alloc_map: the live (offset, size) pairs, as a bag
    last,       \* the most recent call and what it returned
    before,     \* the tree as it was when the most recent call started
    guard,      \* SegTreeAllocator::guard
    start_ptr,  \* SegTreeAllocator::start_ptr
    pc,         \* where each thread stands in with_guard
    call,       \* the adapter call each thread is making, and its result
    aborted     \* "no", or why the process was aborted

core_vars == <<U, H, tree, alloc_map, last, before>>
adapter_vars == <<guard, start_ptr, pc, call, aborted>>
vars == <<U, H, tree, alloc_map, last, before, guard, start_ptr, pc, call, aborted>>

LEAF_LEN == Pow2(H)
MAX_SIZE == U * LEAF_LEN
TreeLen == Pow2(H + 1)

\* usize::checked_next_power_of_two: the smallest power of two >= size
\* (1 for size = 0), None when that does not fit in usize.
RECURSIVE npot_from(_, _)
npot_from(size, p) == IF p >= size THEN p ELSE npot_from(size, 2 * p)

checked_next_power_of_two(size) ==
    IF size > Pow2(UsizeBits - 1)
    THEN [some |-> FALSE, val |-> 0]
    ELSE [some |-> TRUE, val |-> npot_from(size, 1)]

\* usize::trailing_zeros for n > 0
RECURSIVE trailing_zeros(_)
trailing_zeros(n) == IF n % 2 = 1 THEN 0 ELSE 1 + trailing_zeros(n \div 2)


\* ------------------------------------------------------------------- core
\* SegTreeAlloc::new: every slot 0 (slot 0 is never used)
new == [i \in 0..(TreeLen - 1) |-> 0]

\* lvl_for_size that takes the level from the size as given, not rounded up
lvl_for_size_unrounded(size) ==
    IF size < MAX_SIZE
    THEN [ok |-> TRUE, lvl |-> H - trailing_zeros(Max(size \div U, 1))]
    ELSE [ok |-> FALSE, lvl |-> 0]

\* lvl_for_size that rejects a request of zero bytes
lvl_for_size_rejects_zero(size) ==
    LET p == checked_next_power_of_two(size) IN
    IF size # 0 /\ p.some /\ p.val < MAX_SIZE
    THEN [ok |-> TRUE, lvl |-> H - trailing_zeros(Max(p.val \div U, 1))]
    ELSE [ok |-> FALSE, lvl |-> 0]

\* SegTreeAlloc::lvl_for_size: Ok(lvl) or Err(())
lvl_for_size(size) ==
    LET p == checked_next_power_of_two(size) IN
    IF p.some /\ p.val < MAX_SIZE
    THEN [ok |-> TRUE, lvl |-> H - trailing_zeros(Max(p.val \div U, 1))]
    ELSE [ok |-> FALSE, lvl |-> 0]

\* i ^ 1
sibling(i) == IF i % 2 = 0 THEN i + 1 ELSE i - 1

\* push_up that adds one even when both children are 0
RECURSIVE push_up_always_inc(_, _)
push_up_always_inc(t, i) ==
    IF i > 1
    THEN LET a == t[i]
             b == t[sibling(i)]
             v == (Min(a, b) + 1) % MaskMod
         IN  push_up_always_inc([t EXCEPT ![i \div 2] = v], i \div 2)
    ELSE t

\* push_up that takes the larger child instead of the smaller
RECURSIVE push_up_max(_, _)
push_up_max(t, i) ==
    IF i > 1
    THEN LET a == t[i]
             b == t[sibling(i)]
             v == (Max(a, b) + (IF a # 0 \/ b # 0 THEN 1 ELSE 0)) % MaskMod
         IN  push_up_max([t EXCEPT ![i \div 2] = v], i \div 2)
    ELSE t

\* push_up that recomputes the parent of i and stops
push_up_once(t, i) ==
    IF i > 1
    THEN LET a == t[i]
             b == t[sibling(i)]
             v == (Min(a, b) + (IF a # 0 \/ b # 0 THEN 1 ELSE 0)) % MaskMod
         IN  [t EXCEPT ![i \div 2] = v]
    ELSE t

\* push_up that never lowers a slot
RECURSIVE push_up_sticky(_, _)
push_up_sticky(t, i) ==
    IF i > 1
    THEN LET a == t[i]
             b == t[sibling(i)]
             v == (Min(a, b) + (IF a # 0 \/ b # 0 THEN 1 ELSE 0)) % MaskMod
         IN  push_up_sticky([t EXCEPT ![i \div 2] = Max(t[i \div 2], v)], i \div 2)
    ELSE t

\* SegTreeAlloc::push_up: recompute every proper ancestor of i, bottom up
RECURSIVE push_up(_, _)
push_up(t, i) ==
    IF i > 1
    THEN LET a == t[i]
             b == t[sibling(i)]
             v == (Min(a, b) + (IF a # 0 \/ b # 0 THEN 1 ELSE 0)) % MaskMod
         IN  push_up([t EXCEPT ![i \div 2] = v], i \div 2)
    ELSE t

\* the descent loop of alloc: for l in 0..lvl { i = (i << 1) | ... }
RECURSIVE walk_from(_, _, _, _)
walk_from(t, i, l, lvl) ==
    IF l >= lvl
    THEN i
    ELSE walk_from(t, 2 * i + (IF t[2 * i] < lvl - l THEN 0 ELSE 1), l + 1, lvl)

\* the descent preferring the right child
RECURSIVE walk_right_from(_, _, _, _)
walk_right_from(t, i, l, lvl) ==
    IF l >= lvl
    THEN i
    ELSE walk_right_from(t, 2 * i + (IF t[2 * i + 1] < lvl - l THEN 1 ELSE 0),
                         l + 1, lvl)

walk_right_first(t, lvl) == walk_right_from(t, 1, 0, lvl)

\* the descent comparing with <= instead of <
RECURSIVE walk_le_from(_, _, _, _)
walk_le_from(t, i, l, lvl) ==
    IF l >= lvl
    THEN i
    ELSE walk_le_from(t, 2 * i + (IF t[2 * i] <= lvl - l THEN 0 ELSE 1), l + 1, lvl)

walk_le(t, lvl) == walk_le_from(t, 1, 0, lvl)

walk(t, lvl) == walk_from(t, 1, 0, lvl)

\* the offset without the subtraction of 1 << H
offset_of_unbased(i, lvl) == (i * Pow2(H - lvl)) * U

\* off = ((i << (H - lvl)) - (1 << H)) * U
offset_of(i, lvl) == (i * Pow2(H - lvl) - Pow2(H)) * U

\* i = ((1 << H) + off / U) >> (H - lvl)
node_of(off, lvl) == (Pow2(H) + off \div U) \div Pow2(H - lvl)

\* alloc that does not mark the chosen node
alloc_unmarked(t, size) ==
    LET r == lvl_for_size(size) IN
    IF ~r.ok \/ t[1] > r.lvl
    THEN [ok |-> FALSE, off |-> 0, tree |-> t]
    ELSE LET i == walk(t, r.lvl) IN
         [ok |-> TRUE, off |-> offset_of(i, r.lvl), tree |-> push_up(t, i)]

\* alloc without the test of the root
alloc_unchecked(t, size) ==
    LET r == lvl_for_size(size) IN
    IF ~r.ok
    THEN [ok |-> FALSE, off |-> 0, tree |-> t]
    ELSE LET i == walk(t, r.lvl) IN
         [ok |-> TRUE,
          off |-> offset_of(i, r.lvl),
          tree |-> push_up([t EXCEPT ![i] = USED], i)]

\* alloc that marks the node and leaves its ancestors as they are
alloc_no_push_up(t, size) ==
    LET r == lvl_for_size(size) IN
    IF ~r.ok \/ t[1] > r.lvl
    THEN [ok |-> FALSE, off |-> 0, tree |-> t]
    ELSE LET i == walk(t, r.lvl) IN
         [ok |-> TRUE, off |-> offset_of(i, r.lvl), tree |-> [t EXCEPT ![i] = USED]]

\* SegTreeAlloc::alloc: the result and the tree it leaves
alloc(t, size) ==
    LET r == lvl_for_size(size) IN
    IF ~r.ok \/ t[1] > r.lvl
    THEN [ok |-> FALSE, off |-> 0, tree |-> t]
    ELSE LET i == walk(t, r.lvl) IN
         [ok |-> TRUE,
          off |-> offset_of(i, r.lvl),
          tree |-> push_up([t EXCEPT ![i] = USED], i)]

\* dealloc that clears the node and leaves its ancestors as they are
dealloc_no_push_up(t, off, size) ==
    LET r == lvl_for_size(size) IN
    IF ~r.ok
    THEN [ok |-> FALSE, asserted |-> TRUE, tree |-> t]
    ELSE LET i == node_of(off, r.lvl) IN
         [ok |-> TRUE, asserted |-> t[i] = USED, tree |-> [t EXCEPT ![i] = 0]]

\* dealloc that recomputes the ancestors and leaves the mark on the node
dealloc_keeps_mark(t, off, size) ==
    LET r == lvl_for_size(size) IN
    IF ~r.ok
    THEN [ok |-> FALSE, asserted |-> TRUE, tree |-> t]
    ELSE LET i == node_of(off, r.lvl) IN
         [ok |-> TRUE, asserted |-> t[i] = USED, tree |-> push_up(t, i)]

\* SegTreeAlloc::dealloc: the result, whether debug_assert_eq!(tree[i], USED)
\* holds, and the tree it leaves when it runs to the end
dealloc(t, off, size) ==
    LET r == lvl_for_size(size) IN
    IF ~r.ok
    THEN [ok |-> FALSE, asserted |-> TRUE, tree |-> t]
    ELSE LET i == node_of(off, r.lvl) IN
         [ok |-> TRUE,
          asserted |-> t[i] = USED,
          tree |-> push_up([t EXCEPT ![i] = 0], i)]

\* The auto-sized queries of the core, which the adapter calls
\* (h.alloc_size_of, h.dealloc_auto_size): from the leaf of the offset, ascend
\* while the slot is not USED; the first USED node owns the allocation; 0 when
\* no node up to the root is USED.
RECURSIVE owner_from(_, _)
owner_from(t, i) ==
    IF t[i] = USED THEN i
    ELSE IF i <= 1 THEN 0
    ELSE owner_from(t, i \div 2)

owner_of(t, off) == owner_from(t, Pow2(H) + off \div U)

\* SegTreeAlloc::alloc_size_of: size = U * 2^(H - lvl) of the owning node
alloc_size_of(t, off) ==
    LET i == owner_of(t, off) IN
    IF i = 0
    THEN [ok |-> FALSE, size |-> 0]
    ELSE [ok |-> TRUE, size |-> U * Pow2(H - Depth(i))]

\* SegTreeAlloc::dealloc_auto_size: release the owning node
dealloc_auto_size(t, off) ==
    LET i == owner_of(t, off) IN
    IF i = 0
    THEN [ok |-> FALSE, tree |-> t]
    ELSE [ok |-> TRUE, tree |-> push_up([t EXCEPT ![i] = 0], i)]

\* ----------------------------------------------------------------- driver
\* The sizes a caller passes to alloc: zero, every block size, the size one
\* byte short of every block size above the unit, and sizes too large to be
\* served; in the heap of height 0 also the size one byte short of the unit.
Sizes == {0, MAX_SIZE \div 2 + 1, MAX_SIZE, SIZE_MAX}
         \cup {U * Pow2(k) : k \in 0..(H - 1)}
         \cup {U * Pow2(k) - 1 : k \in 1..(H - 1)}
         \cup (IF H = 0 THEN {U - 1} ELSE {})

Units == {1, Pow2(LogU)}

Entry(off, size) == [off |-> off, size |-> size]

Threads == 1..NThreads

NoCall == [op |-> "none", size |-> 0, align |-> 1, ptr |-> 0, ret |-> 0]

\* SegTreeAlloc::new and SegTreeAllocator::new
Init ==
    /\ H \in 1..MaxH
    /\ U \in Units
    /\ tree = new
    /\ alloc_map = EmptyBag
    /\ last = [op |-> "new", size |-> 0, off |-> 0, res |-> "Ok", follows |-> FALSE]
    /\ before = new
    /\ guard = FALSE
    /\ start_ptr = 0
    /\ pc = [t \in Threads |-> "idle"]
    /\ call = [t \in Threads |-> NoCall]
    /\ aborted = "no"

\* heap.alloc(size); on Ok(off) the caller records (off, size)
DoAlloc ==
    \E size \in Sizes :
    \E r \in {alloc(tree, size)} :
        /\ r.ok => BagCardinality(alloc_map) < MaxLive
        /\ tree' = r.tree
        /\ before' = tree
        /\ alloc_map' = IF r.ok THEN alloc_map (+) SetToBag({Entry(r.off, size)})
                                ELSE alloc_map
        /\ last' = [op |-> "alloc", size |-> size, off |-> r.off,
                    res |-> IF r.ok THEN "Ok" ELSE "Err", follows |-> FALSE]
        /\ UNCHANGED <<U, H>>
        /\ UNCHANGED adapter_vars

\* heap.dealloc(off, size) of a live allocation with its recorded size
DoDealloc ==
    \E e \in BagToSet(alloc_map) :
    \E r \in {dealloc(tree, e.off, e.size)} :
        /\ tree' = IF r.ok /\ r.asserted THEN r.tree ELSE tree
        /\ before' = tree
        /\ alloc_map' = alloc_map (-) SetToBag({e})
        /\ last' = [op |-> "dealloc", size |-> e.size, off |-> e.off,
                    res |-> IF ~r.ok THEN "Err"
                            ELSE IF r.asserted THEN "Ok" ELSE "Panic",
                    follows |-> /\ last.op = "alloc"
                                /\ last.res = "Ok"
                                /\ last.off = e.off
                                /\ last.size = e.size]
        /\ UNCHANGED <<U, H>>
        /\ UNCHANGED adapter_vars

Next == DoAlloc \/ DoDealloc

Spec == Init /\ [][Next]_vars

\* the heaps of every height, the one without levels below the root included
AnyHeightInit ==
    /\ H \in 0..MaxH
    /\ U \in Units
    /\ tree = new
    /\ alloc_map = EmptyBag
    /\ last = [op |-> "new", size |-> 0, off |-> 0, res |-> "Ok", follows |-> FALSE]
    /\ before = new
    /\ guard = FALSE
    /\ start_ptr = 0
    /\ pc = [t \in Threads |-> "idle"]
    /\ call = [t \in Threads |-> NoCall]
    /\ aborted = "no"

AnyHeightSpec == AnyHeightInit /\ [][Next]_vars

\* ---------------------------------------------------------------- adapter
\* SegTreeAllocator: every operation runs its closure inside with_guard.  A
\* thread stands at "idle" (no call), "swap" (about to run guard.swap),
\* "inside" (the flag is its own, the closure has not run), "release" (the
\* closure has run, about to store false) or "aborted".  The arguments of a
\* call are local to its thread until the closure runs, so the model picks
\* them when the closure runs; a pointer passed to dealloc, alloc_size_of or
\* dealloc_auto_size is a live allocation then, as their contracts require.

PageSize == Pow2(LogPage)

\* the addresses mmap_anonymous may return: page-aligned, not null
Bases == {PageSize * k : k \in 1..2}

\* the layouts callers pass to GlobalAlloc::alloc
LayoutSizes == {0, U, MAX_SIZE \div 2, MAX_SIZE}
Aligns == {1, 2 * U}

AllocsInFlight ==
    Cardinality({t \in Threads : pc[t] \in {"swap", "inside"} /\ call[t].op = "alloc"})

\* a thread calls one of the operations of the adapter
Start(t, op) ==
    /\ aborted = "no"
    /\ pc[t] = "idle"
    /\ pc' = [pc EXCEPT ![t] = "swap"]
    /\ call' = [call EXCEPT ![t] = [NoCall EXCEPT !.op = op]]
    /\ UNCHANGED <<core_vars, guard, start_ptr, aborted>>

\* GlobalAlloc::alloc(layout)
CallAlloc(t) ==
    /\ BagCardinality(alloc_map) + AllocsInFlight < MaxLive
    /\ Start(t, "alloc")

\* GlobalAlloc::dealloc(ptr, layout)
CallDealloc(t) == alloc_map # EmptyBag /\ Start(t, "dealloc")

\* SegTreeAllocator::alloc_size_of(ptr)
CallAllocSizeOf(t) == alloc_map # EmptyBag /\ Start(t, "alloc_size_of")

\* SegTreeAllocator::dealloc_auto_size(ptr)
CallDeallocAutoSize(t) == alloc_map # EmptyBag /\ Start(t, "dealloc_auto_size")

\* with_guard that enters whatever the flag was
Acquire_unchecked(t) ==
    /\ aborted = "no"
    /\ pc[t] = "swap"
    /\ guard' = TRUE
    /\ pc' = [pc EXCEPT ![t] = "inside"]
    /\ UNCHANGED <<core_vars, start_ptr, call, aborted>>

\* with_guard: if self.guard.swap(true, Acquire) { abort() }
Acquire(t) ==
    /\ aborted = "no"
    /\ pc[t] = "swap"
    /\ guard' = TRUE
    /\ IF guard
       THEN /\ aborted' = "guard"
            /\ pc' = [pc EXCEPT ![t] = "aborted"]
       ELSE /\ aborted' = aborted
            /\ pc' = [pc EXCEPT ![t] = "inside"]
    /\ UNCHANGED <<core_vars, start_ptr, call>>

\* the closure has returned: the thread goes on to store false
Leave(t, size, align, ptr, ret) ==
    /\ pc' = [pc EXCEPT ![t] = "release"]
    /\ call' = [call EXCEPT ![t] = [op |-> call[t].op, size |-> size,
                                    align |-> align, ptr |-> ptr, ret |-> ret]]

\* the closure of GlobalAlloc::alloc, with mmap_all on the first call
BodyAlloc(t) ==
    /\ aborted = "no"
    /\ pc[t] = "inside"
    /\ call[t].op = "alloc"
    /\ \E lsize \in LayoutSizes, align \in Aligns :
       \E base \in (IF start_ptr = 0 THEN Bases ELSE {start_ptr}) :
          LET size == Max(lsize, align)
              r == alloc(tree, size)
          IN  /\ start_ptr' = base
              /\ tree' = r.tree
              /\ alloc_map' = IF r.ok
                              THEN alloc_map (+) SetToBag({Entry(r.off, size)})
                              ELSE alloc_map
              /\ Leave(t, lsize, align, 0, IF r.ok THEN base + r.off ELSE 0)
    /\ UNCHANGED <<U, H, last, before, guard, aborted>>

\* mmap_all: the mapping fails and the process aborts
BodyAllocMmapFails(t) ==
    /\ aborted = "no"
    /\ pc[t] = "inside"
    /\ call[t].op = "alloc"
    /\ start_ptr = 0
    /\ aborted' = "mmap"
    /\ pc' = [pc EXCEPT ![t] = "aborted"]
    /\ UNCHANGED <<core_vars, guard, start_ptr, call>>

\* the closure of GlobalAlloc::dealloc, for a live allocation and a layout
\* of its size
BodyDealloc(t) ==
    /\ aborted = "no"
    /\ pc[t] = "inside"
    /\ call[t].op = "dealloc"
    /\ \E e \in BagToSet(alloc_map) :
          LET ptr == start_ptr + e.off
              off == ptr - start_ptr
              r == dealloc(tree, off, e.size)
          IN  /\ r.ok /\ r.asserted
              /\ tree' = r.tree
              /\ alloc_map' = alloc_map (-) SetToBag({e})
              /\ Leave(t, e.size, 1, ptr, 0)
    /\ UNCHANGED <<U, H, last, before, guard, start_ptr, aborted>>

\* the closure of alloc_size_of, for a live allocation
BodyAllocSizeOf(t) ==
    /\ aborted = "no"
    /\ pc[t] = "inside"
    /\ call[t].op = "alloc_size_of"
    /\ \E e \in BagToSet(alloc_map) :
          LET ptr == start_ptr + e.off
              r == alloc_size_of(tree, ptr - start_ptr)
          IN  /\ r.ok
              /\ Leave(t, 0, 1, ptr, r.size)
    /\ UNCHANGED <<core_vars, guard, start_ptr, aborted>>

\* the closure of dealloc_auto_size, for a live allocation
BodyDeallocAutoSize(t) ==
    /\ aborted = "no"
    /\ pc[t] = "inside"
    /\ call[t].op = "dealloc_auto_size"
    /\ \E e \in BagToSet(alloc_map) :
          LET ptr == start_ptr + e.off
              r == dealloc_auto_size(tree, ptr - start_ptr)
          IN  /\ r.ok
              /\ tree' = r.tree
              /\ alloc_map' = alloc_map (-) SetToBag({e})
              /\ Leave(t, 0, 1, ptr, 0)
    /\ UNCHANGED <<U, H, last, before, guard, start_ptr, aborted>>

\* with_guard: self.guard.store(false, Release); ret
Release(t) ==
    /\ aborted = "no"
    /\ pc[t] = "release"
    /\ guard' = FALSE
    /\ pc' = [pc EXCEPT ![t] = "idle"]
    /\ call' = [call EXCEPT ![t] = NoCall]
    /\ UNCHANGED <<core_vars, start_ptr, aborted>>

AdapterNext ==
    \E t \in Threads :
        \/ CallAlloc(t)
        \/ CallDealloc(t)
        \/ CallAllocSizeOf(t)
        \/ CallDeallocAutoSize(t)
        \/ Acquire(t)
        \/ BodyAlloc(t)
        \/ BodyAllocMmapFails(t)
        \/ BodyDealloc(t)
        \/ BodyAllocSizeOf(t)
        \/ BodyDeallocAutoSize(t)
        \/ Release(t)

\* SegTreeAllocator::new, with the one heap type the adapter uses
AdapterInit == Init /\ H = AdapterH /\ U = Pow2(LogU)

AdapterSpec == AdapterInit /\ [][AdapterNext]_vars

\* ------------------------------------------------- calls outside the contract
\* GlobalAlloc::dealloc with a pointer and a layout whose node is not USED (a
\* pointer freed before, or the layout of another block): the core reaches
\* debug_assert_eq!(self.tree[i], USED) with tree[i] # USED.  What follows
\* depends on the build: with debug assertions the closure panics, and the
\* panic either unwinds out of with_guard or ends in a handler that aborts;
\* without them the assertion is compiled out and dealloc goes on.

Offsets == {U * k : k \in 0..(LEAF_LEN - 1)}

\* the offsets and sizes for which the assertion of dealloc fails
FailedAsserts ==
    {c \in [off : Offsets, size : LayoutSizes] :
        LET r == dealloc(tree, c.off, c.size) IN r.ok /\ ~r.asserted}

InDealloc(t) ==
    /\ aborted = "no"
    /\ pc[t] = "inside"
    /\ call[t].op = "dealloc"

\* the panic unwinds: the closure does not return, with_guard is left before
\* self.guard.store(false, Release), and the thread goes on
BodyDeallocPanicUnwinds(t) ==
    /\ InDealloc(t)
    /\ FailedAsserts # {}
    /\ pc' = [pc EXCEPT ![t] = "idle"]
    /\ call' = [call EXCEPT ![t] = NoCall]
    /\ UNCHANGED <<core_vars, guard, start_ptr, aborted>>

\* the panic ends in a handler that aborts the process
BodyDeallocPanicAborts(t) ==
    /\ InDealloc(t)
    /\ FailedAsserts # {}
    /\ aborted' = "panic"
    /\ pc' = [pc EXCEPT ![t] = "aborted"]
    /\ UNCHANGED <<core_vars, guard, start_ptr, call>>

\* the assertion is compiled out: the slot is cleared, push_up runs and the
\* closure returns; the caller takes what it freed for dead
BodyDeallocUnasserted(t) ==
    /\ InDealloc(t)
    /\ \E c \in FailedAsserts :
       \E r \in {dealloc(tree, c.off, c.size)} :
          /\ tree' = r.tree
          /\ alloc_map' = [e \in {x \in DOMAIN alloc_map : x.off # c.off}
                             |-> alloc_map[e]]
          /\ Leave(t, c.size, 1, start_ptr + c.off, 0)
    /\ UNCHANGED <<U, H, last, before, guard, start_ptr, aborted>>

MisuseNext ==
    \/ AdapterNext
    \/ \E t \in Threads :
          \/ BodyDeallocPanicUnwinds(t)
          \/ BodyDeallocPanicAborts(t)
          \/ BodyDeallocUnasserted(t)

MisuseSpec == AdapterInit /\ [][MisuseNext]_vars

\* -------------------------------------------------------------------- C ABI
\* The functions the malloc crate exports, called by one thread of a C
\* program (thread 1) that keeps their contracts: free and realloc get null
\* or a live pointer.  A call runs to its return in one step: every
\* with_guard inside it finds the flag free and leaves it free.  call[1]
\* holds the most recent call: its arguments, and in `ret` what it returned;
\* for posix_memalign `ptr` is what it stored in *ret.

\* the least height at which half the heap exceeds a page, as in Heap
AbiH == LogPage - LogU + 2

\* MIN_ALIGN is below the unit of the heap (16 < 64)
MIN_ALIGN == Pow2(LogU - 1)

\* usize::is_power_of_two
is_power_of_two(n) == \E k \in 0..(UsizeBits - 1) : n = Pow2(k)

\* the sizes and alignments the C program passes
AbiSizes == {0, MAX_SIZE \div 2, MAX_SIZE}
AbiAligns == {3, U, 2 * PageSize}

\* the blocks the C program holds at a time
AbiLive == MaxLive - 1

AbiStart == aborted = "no" /\ ~guard

Returns(op, size, align, ptr, ret) ==
    call' = [call EXCEPT ![1] = [op |-> op, size |-> size, align |-> align,
                                 ptr |-> ptr, ret |-> ret]]

\* GlobalAlloc::alloc(layout) with the heap mapped at base
GlobalAlloc_alloc(lsize, align, base) ==
    LET size == Max(lsize, align)
        r == alloc(tree, size)
    IN  [ok |-> r.ok, off |-> r.off, size |-> size, tree |-> r.tree,
         ptr |-> IF r.ok THEN base + r.off ELSE 0]

\* what a call of GlobalAlloc::alloc that returned g leaves behind
Allocated(g, base) ==
    /\ g.ok => BagCardinality(alloc_map) < AbiLive
    /\ start_ptr' = base
    /\ tree' = g.tree
    /\ alloc_map' = IF g.ok
                    THEN alloc_map (+) SetToBag({Entry(g.off, g.size)})
                    ELSE alloc_map

\* the address of the heap: mapped by the first allocation
MapBases == IF start_ptr = 0 THEN Bases ELSE {start_ptr}

malloc ==
    /\ AbiStart
    /\ \E size \in AbiSizes, base \in MapBases :
       \E g \in {GlobalAlloc_alloc(size, MIN_ALIGN, base)} :
          /\ Allocated(g, base)
          /\ Returns("malloc", size, MIN_ALIGN, 0, g.ptr)
    /\ UNCHANGED <<U, H, last, before, guard, pc, aborted>>

\* free that returns without releasing the block
free_keeps_block ==
    /\ AbiStart
    /\ \/ /\ Returns("free", 0, 1, 0, 0)
          /\ UNCHANGED <<tree, alloc_map, aborted>>
       \/ \E e \in BagToSet(alloc_map) :
             /\ alloc_map' = alloc_map (-) SetToBag({e})
             /\ Returns("free", 0, 1, start_ptr + e.off, 0)
             /\ UNCHANGED <<tree, aborted>>
    /\ UNCHANGED <<U, H, last, before, guard, start_ptr, pc>>

\* free: nothing for null; else dealloc_auto_size(ptr)
free ==
    /\ AbiStart
    /\ \/ /\ Returns("free", 0, 1, 0, 0)
          /\ UNCHANGED <<tree, alloc_map, aborted>>
       \/ \E e \in BagToSet(alloc_map) :
          \E r \in {dealloc_auto_size(tree, (start_ptr + e.off) - start_ptr)} :
             /\ tree' = r.tree
             /\ alloc_map' = alloc_map (-) SetToBag({e})
             /\ aborted' = IF r.ok THEN aborted ELSE "ub"
             /\ Returns("free", 0, 1, start_ptr + e.off, 0)
    /\ UNCHANGED <<U, H, last, before, guard, start_ptr, pc>>

aligned_alloc ==
    /\ AbiStart
    /\ \E align \in AbiAligns, size \in AbiSizes :
          IF ~is_power_of_two(align)
          THEN /\ Returns("aligned_alloc", size, align, 0, 0)
               /\ UNCHANGED <<tree, alloc_map, start_ptr>>
          ELSE \E base \in MapBases :
               \E g \in {GlobalAlloc_alloc(size, align, base)} :
                  /\ Allocated(g, base)
                  /\ Returns("aligned_alloc", size, align, 0, g.ptr)
    /\ UNCHANGED <<U, H, last, before, guard, pc, aborted>>

\* no test of the alignment: the layout carries it as given
posix_memalign ==
    /\ AbiStart
    /\ \E align \in AbiAligns, size \in AbiSizes, base \in MapBases :
       \E g \in {GlobalAlloc_alloc(size, align, base)} :
          /\ Allocated(g, base)
          /\ Returns("posix_memalign", size, align, g.ptr,
                     IF g.ptr = 0 THEN 1 ELSE 0)
    /\ UNCHANGED <<U, H, last, before, guard, pc, aborted>>

\* realloc that releases the old block before it allocates the new one
realloc_release_first ==
    /\ AbiStart
    /\ \/ \E new_size \in AbiSizes, base \in MapBases :
          \E g \in {GlobalAlloc_alloc(new_size, MIN_ALIGN, base)} :
             /\ Allocated(g, base)
             /\ Returns("realloc", new_size, MIN_ALIGN, 0, g.ptr)
             /\ UNCHANGED aborted
       \/ \E e \in BagToSet(alloc_map), new_size \in AbiSizes :
          \E prev \in {alloc_size_of(tree, e.off)} :
          \E d \in {dealloc(tree, e.off, Max(prev.size, MIN_ALIGN))} :
          \E r \in {alloc(d.tree, Max(new_size, MIN_ALIGN))} :
             /\ tree' = r.tree
             /\ alloc_map' = IF r.ok
                             THEN (alloc_map (-) SetToBag({e}))
                                     (+) SetToBag({Entry(r.off, Max(new_size, MIN_ALIGN))})
                             ELSE alloc_map (-) SetToBag({e})
             /\ Returns("realloc", new_size, MIN_ALIGN, start_ptr + e.off,
                        IF r.ok THEN start_ptr + r.off ELSE 0)
             /\ UNCHANGED <<start_ptr, aborted>>
    /\ UNCHANGED <<U, H, last, before, guard, pc>>

\* realloc: malloc for null; else alloc_size_of, then GlobalAlloc::realloc,
\* which allocates (new_size, MIN_ALIGN) and, when that succeeds, copies and
\* calls dealloc(ptr, (prev_size, MIN_ALIGN))
realloc ==
    /\ AbiStart
    /\ \/ \E new_size \in AbiSizes, base \in MapBases :
          \E g \in {GlobalAlloc_alloc(new_size, MIN_ALIGN, base)} :
             /\ Allocated(g, base)
             /\ Returns("realloc", new_size, MIN_ALIGN, 0, g.ptr)
             /\ UNCHANGED aborted
       \/ \E e \in BagToSet(alloc_map), new_size \in AbiSizes :
          \E prev \in {alloc_size_of(tree, (start_ptr + e.off) - start_ptr)} :
          \E g \in {GlobalAlloc_alloc(new_size, MIN_ALIGN, start_ptr)} :
          \E d \in {dealloc(g.tree, (start_ptr + e.off) - start_ptr,
                            Max(prev.size, MIN_ALIGN))} :
             /\ Returns("realloc", new_size, MIN_ALIGN, start_ptr + e.off, g.ptr)
             /\ UNCHANGED start_ptr
             /\ IF ~prev.ok
                THEN aborted' = "ub" /\ UNCHANGED <<tree, alloc_map>>
                ELSE IF ~g.ok
                THEN UNCHANGED <<tree, alloc_map, aborted>>
                ELSE /\ BagCardinality(alloc_map) < AbiLive
                     /\ tree' = IF d.ok /\ d.asserted THEN d.tree ELSE g.tree
                     /\ aborted' = IF ~d.ok THEN "ub"
                                   ELSE IF ~d.asserted THEN "panic"
                                   ELSE aborted
                     /\ alloc_map' = (alloc_map (-) SetToBag({e}))
                                        (+) SetToBag({Entry(g.off, g.size)})
    /\ UNCHANGED <<U, H, last, before, guard, pc>>

\* mmap_all: the mapping fails and the process aborts
AbiMmapFails ==
    /\ AbiStart
    /\ start_ptr = 0
    /\ aborted' = "mmap"
    /\ UNCHANGED <<core_vars, guard, start_ptr, pc, call>>

AbiNext ==
    \/ malloc
    \/ free
    \/ aligned_alloc
    \/ posix_memalign
    \/ realloc
    \/ AbiMmapFails

\* the static ALLOCATOR of the malloc crate
AbiInit ==
    /\ H = AbiH
    /\ U = Pow2(LogU)
    /\ tree = new
    /\ alloc_map = EmptyBag
    /\ last = [op |-> "new", size |-> 0, off |-> 0, res |-> "Ok", follows |-> FALSE]
    /\ before = new
    /\ guard = FALSE
    /\ start_ptr = 0
    /\ pc = [t \in Threads |-> "idle"]
    /\ call = [t \in Threads |-> NoCall]
    /\ aborted = "no"

AbiSpec == AbiInit /\ [][AbiNext]_vars

\* ------------------------------------------------- vocabulary of the claims
\* These definitions restate the geometry of the heap without using the
\* operators of the core above.

NodesAt(d) == Pow2(d)..(Pow2(d + 1) - 1)
AllNodes == 1..(TreeLen - 1)

\* bytes covered by a node of depth d, and the first byte node n covers
BlockSize(d) == MAX_SIZE \div Pow2(d)
NodeStart(n) == (n - Pow2(Depth(n))) * BlockSize(Depth(n))
NodeEnd(n) == NodeStart(n) + BlockSize(Depth(n))

\* the least power of two >= size: it is >= size, and its half is not
PowersOfTwo == {Pow2(k) : k \in 0..UsizeBits}

RoundUp(size) ==
    CHOOSE p \in PowersOfTwo : p >= size /\ (p = 1 \/ p \div 2 < size)

\* the block a request of `size` bytes occupies, and the depth of its node
BlockBytes(size) == Max(U, RoundUp(size))
ReqLevel(size) == CHOOSE d \in 0..H : BlockSize(d) = BlockBytes(size)

\* node n holds no byte of the block of any allocation of the bag m
FreeNode(n, m) ==
    \A e \in BagToSet(m) :
        e.off + BlockBytes(e.size) <= NodeStart(n) \/ NodeEnd(n) <= e.off

\* a maximal free block: a free node whose parent is not free
MaximalFree(n, m) == FreeNode(n, m) /\ (n = 1 \/ ~FreeNode(n \div 2, m))

LastAllocOk == last.op = "alloc" /\ last.res = "Ok"

\* the live allocations as they were when the most recent alloc started
MapBeforeAlloc ==
    IF LastAllocOk
    THEN alloc_map (-) SetToBag({Entry(last.off, last.size)})
    ELSE alloc_map

RECURSIVE SumSizes(_)
SumSizes(m) ==
    IF BagToSet(m) = {}
    THEN 0
    ELSE LET e == CHOOSE x \in BagToSet(m) : TRUE
         IN  e.size + SumSizes(m (-) SetToBag({e}))

\* ----------------------------------------------------------------- claims

\* C1 (non-overlap): no offset is live twice, and the byte intervals
\* [off, off + size) of any two live allocations are disjoint.
NonOverlap ==
    /\ \A e \in BagToSet(alloc_map) : CopiesIn(e, alloc_map) = 1
    /\ \A a, b \in BagToSet(alloc_map) :
          a # b => (a.off + a.size <= b.off \/ b.off + b.size <= a.off)

\* a successful alloc placed its block strictly between two live allocations
NonOverlapWitness ==
    /\ LastAllocOk
    /\ last.size > 0
    /\ \E a, b \in BagToSet(alloc_map) :
          /\ a.size > 0 /\ b.size > 0
          /\ a.off < last.off /\ last.off < b.off

\* C2 (in-range): a successful alloc(size) returns 0 <= off with
\* off + size <= MAX_SIZE, every live allocation lies in the heap, and the
\* sizes of the live allocations sum to at most MAX_SIZE.
InRange ==
    /\ LastAllocOk => (0 <= last.off /\ last.off + last.size <= MAX_SIZE)
    /\ \A e \in BagToSet(alloc_map) : 0 <= e.off /\ e.off + e.size <= MAX_SIZE
    /\ SumSizes(alloc_map) <= MAX_SIZE

\* the heap is exactly full and the last allocation ends at its last byte
InRangeWitness ==
    /\ LastAllocOk
    /\ last.off + last.size = MAX_SIZE
    /\ SumSizes(alloc_map) = MAX_SIZE
    /\ BagCardinality(alloc_map) >= 2

\* C3 (alignment): the offset a successful alloc(size) returns is a multiple
\* of U and of the least power of two >= size.
Alignment ==
    LastAllocOk => (last.off % U = 0 /\ last.off % RoundUp(last.size) = 0)

\* a request that is no power of two, larger than a unit, placed past offset 0
AlignmentWitness ==
    /\ LastAllocOk
    /\ last.off > 0
    /\ last.size < RoundUp(last.size)
    /\ RoundUp(last.size) > U

\* C4 (left-first): a successful alloc(size) returns the smallest offset among
\* the nodes of the request's depth that held no byte of a live block when
\* the call started.
LeftFirst ==
    LastAllocOk =>
        LET free_nodes == {n \in NodesAt(ReqLevel(last.size)) : FreeNode(n, MapBeforeAlloc)}
        IN  /\ \E n \in free_nodes : NodeStart(n) = last.off
            /\ \A n \in free_nodes : last.off <= NodeStart(n)

\* the chosen node is not the first of its depth, and another free node of
\* the same depth lay to its right
LeftFirstWitness ==
    /\ LastAllocOk
    /\ last.off > 0
    /\ \E n \in NodesAt(ReqLevel(last.size)) :
          FreeNode(n, MapBeforeAlloc) /\ NodeStart(n) > last.off

\* the maximal free blocks of m that can hold a block of depth lvl
Fitting(lvl, m) == {n \in AllNodes : MaximalFree(n, m) /\ Depth(n) <= lvl}

\* node n contains the block of the most recent allocation
HoldsLast(n) ==
    NodeStart(n) <= last.off /\ last.off + BlockBytes(last.size) <= NodeEnd(n)

\* C5 as stated (best fit): a successful alloc carves its block out of a
\* maximal free block of the smallest size that fits, the leftmost of that
\* size.
BestFit ==
    LastAllocOk =>
        LET fit == Fitting(ReqLevel(last.size), MapBeforeAlloc)
        IN  \E h \in fit :
                /\ HoldsLast(h)
                /\ \A n \in fit : Depth(n) <= Depth(h)
                /\ \A n \in fit : Depth(n) = Depth(h) => NodeStart(h) <= NodeStart(n)

\* C5 as amended (leftmost fit): a successful alloc carves its block out of
\* the leftmost maximal free block that fits, at the start of that block,
\* whatever the sizes of the maximal free blocks to its right.
LeftmostFit ==
    LastAllocOk =>
        LET fit == Fitting(ReqLevel(last.size), MapBeforeAlloc)
        IN  \E h \in fit :
                /\ HoldsLast(h)
                /\ NodeStart(h) = last.off
                /\ \A n \in fit : NodeStart(h) <= NodeStart(n)

\* the block was split off a maximal free block although a smaller maximal
\* free block that fits lay to the right
LeftmostFitWitness ==
    /\ LastAllocOk
    /\ LET fit == Fitting(ReqLevel(last.size), MapBeforeAlloc)
       IN  \E h, n \in fit :
               /\ HoldsLast(h)
               /\ Depth(n) > Depth(h)
               /\ NodeStart(n) > NodeStart(h)

\* C6 (round trip): a dealloc(off, s) that directly follows the successful
\* off = alloc(s) leaves every slot of the tree as it was before that alloc.
RoundTrip ==
    [][(/\ LastAllocOk
        /\ last'.op = "dealloc"
        /\ last'.off = last.off
        /\ last'.size = last.size) => tree' = before]_vars

\* such a dealloc has run, in a heap that holds other allocations
RoundTripWitness ==
    /\ last.op = "dealloc"
    /\ last.res = "Ok"
    /\ last.follows
    /\ alloc_map # EmptyBag
    /\ tree # before

\* C7 (full-heap recovery): whenever no allocation is live, alloc(MAX_SIZE/2)
\* succeeds and returns offset 0.
FullHeapRecovery ==
    /\ alloc_map = EmptyBag =>
          LET r == alloc(tree, MAX_SIZE \div 2) IN r.ok /\ r.off = 0
    /\ (last.op = "alloc" /\ last.size = MAX_SIZE \div 2 /\ MapBeforeAlloc = EmptyBag)
          => (last.res = "Ok" /\ last.off = 0)

\* a dealloc has just released the last live allocation
FullHeapRecoveryWitness ==
    /\ last.op = "dealloc"
    /\ last.res = "Ok"
    /\ ~last.follows
    /\ alloc_map = EmptyBag

\* C8 (failed alloc does not mutate): alloc(size) fails when the rounding of
\* size overflows, when the rounded size is >= MAX_SIZE, and when the root
\* slot exceeds the request's level; a failed alloc leaves every slot as it
\* was; no request above MAX_SIZE/2 succeeds.
FailedAllocKeepsTree ==
    last.op = "alloc" =>
        LET overflow == last.size > Pow2(UsizeBits - 1)
            too_big == ~overflow /\ RoundUp(last.size) >= MAX_SIZE
            no_block == /\ ~overflow
                        /\ ~too_big
                        /\ before[1] > ReqLevel(last.size)
        IN  /\ (overflow \/ too_big \/ no_block) => last.res = "Err"
            /\ last.res = "Err" => tree = before
            /\ last.res = "Ok" => last.size <= MAX_SIZE \div 2

\* a request of a servable size failed on the root test in a used heap
FailedAllocWitness ==
    /\ last.op = "alloc"
    /\ last.res = "Err"
    /\ 0 < last.size
    /\ last.size <= MAX_SIZE \div 2
    /\ before[1] > ReqLevel(last.size)
    /\ before[1] < USED
    /\ tree = before

\* C9 as stated (zero-size request): alloc(0) fails and leaves the tree
\* unchanged.
ZeroSizeFails ==
    (last.op = "alloc" /\ last.size = 0) => (last.res = "Err" /\ tree = before)

\* C9 as amended: alloc(0) is served as a request for one unit: it succeeds
\* exactly when a leaf is free, returns the offset of the leftmost free leaf
\* and marks that leaf USED; when no leaf is free it fails and leaves the
\* tree unchanged.
ZeroSizeIsUnitRequest ==
    (last.op = "alloc" /\ last.size = 0) =>
        LET free_nodes == {n \in NodesAt(H) : FreeNode(n, MapBeforeAlloc)}
        IN  /\ last.res = "Ok" <=> free_nodes # {}
            /\ last.res = "Ok" =>
                  \E n \in free_nodes :
                      /\ NodeStart(n) = last.off
                      /\ \A k \in free_nodes : NodeStart(n) <= NodeStart(k)
                      /\ tree[n] = USED
                      /\ before[n] = 0
            /\ last.res = "Err" => tree = before

\* alloc(0) succeeded past offset 0
ZeroSizeWitness ==
    /\ LastAllocOk
    /\ last.size = 0
    /\ last.off > 0

\* the threads inside the guarded section
InSection == {t \in Threads : pc[t] \in {"inside", "release"}}

MutualExclusion ==
    /\ Cardinality(InSection) <= 1
    /\ InSection # {} => guard

\* what a step of a thread may do at the guard
GuardStep ==
    /\ \A t \in Threads :
          /\ (pc[t] = "swap" /\ pc'[t] # "swap" /\ guard)
                => (aborted' = "guard" /\ pc'[t] = "aborted")
          /\ (pc[t] # "inside" /\ pc'[t] = "inside")
                => (pc[t] = "swap" /\ ~guard /\ guard')
    /\ (tree' # tree \/ start_ptr' # start_ptr)
          => \E t \in Threads : pc[t] = "inside" /\ pc'[t] = "release"
    /\ aborted # "no" => UNCHANGED vars

\* C10 (mutual exclusion by abort): at most one thread is inside the guarded
\* section, and it holds the flag; the tree and start_ptr change only in a
\* step of the thread inside; a thread that runs the swap while the flag is
\* taken aborts the process and does not enter; a thread enters only by
\* taking a free flag; after an abort nothing runs.
GuardExcludes == []MutualExclusion /\ [][GuardStep]_vars

\* a thread found the flag taken by a thread inside, and the process aborted
GuardExcludesWitness ==
    /\ aborted = "guard"
    /\ \E t, u \in Threads :
          /\ pc[t] \in {"inside", "release"}
          /\ pc[u] = "aborted"
    /\ alloc_map # EmptyBag

\* C11 (guard release): whenever no thread is inside an operation of the
\* adapter and the process has not aborted, the guard flag is free: every
\* operation that leaves without aborting, the failed assertion of dealloc
\* included, has released it.
GuardReleased ==
    (aborted = "no" /\ \A t \in Threads : pc[t] \in {"idle", "swap"}) => ~guard

\* the calls of the C ABI that allocate, and the pointer the most recent
\* call handed out (null when it handed out none)
AllocCalls == {"malloc", "aligned_alloc", "posix_memalign", "realloc"}

Returned(c) == IF c.op = "posix_memalign" THEN c.ptr ELSE c.ret

\* C12 (adapter alignment): a successful allocation of size s with a
\* power-of-two alignment A, where max(s, A) rounds up to at most MAX_SIZE/2,
\* returns a pointer base + offset that is a multiple of A, whatever
\* page-aligned base the mapping returned.
AdapterAlignment ==
    (/\ call[1].op \in AllocCalls
     /\ Returned(call[1]) # 0
     /\ call[1].align \in PowersOfTwo
     /\ RoundUp(Max(call[1].size, call[1].align)) <= MAX_SIZE \div 2)
        => Returned(call[1]) % call[1].align = 0

\* a step that is a call of aligned_alloc or posix_memalign with an
\* alignment that is no power of two
InvalidAlignCall ==
    /\ aborted' = "no"
    /\ call'[1].op \in {"aligned_alloc", "posix_memalign"}
    /\ call'[1].align \notin PowersOfTwo

\* C13 (invalid alignment): aligned_alloc and posix_memalign with an
\* alignment that is no power of two return null, respectively a nonzero
\* code, allocate no block and leave the tree as it was.
InvalidAlignFails ==
    [][InvalidAlignCall =>
          /\ Returned(call'[1]) = 0
          /\ call'[1].op = "posix_memalign" => call'[1].ret # 0
          /\ tree' = tree
          /\ alloc_map' = alloc_map]_vars

\* the node of the block of a live allocation, and the slots that are USED
NodeOfEntry(e) ==
    CHOOSE n \in NodesAt(ReqLevel(e.size)) : NodeStart(n) = e.off

UsedNodes(t) == {n \in AllNodes : t[n] = USED}

\* a step that is a call of realloc
ReallocStep ==
    /\ call'[1].op = "realloc"
    /\ aborted' # "mmap"

\* realloc of the live allocation e to n bytes, returning q
ReallocLive(e, n, q) ==
    LET moved == Entry(q - start_ptr, Max(n, MIN_ALIGN)) IN
    /\ aborted' = "no"
    /\ start_ptr' = start_ptr
    /\ alloc_size_of(tree, e.off) = [ok |-> TRUE, size |-> BlockBytes(e.size)]
    /\ q # 0 =>
          /\ q >= start_ptr
          /\ \/ moved.off + BlockBytes(moved.size) <= e.off
             \/ e.off + BlockBytes(e.size) <= moved.off
          /\ alloc_map' = (alloc_map (-) SetToBag({e})) (+) SetToBag({moved})
          /\ UsedNodes(tree') =
                (UsedNodes(tree) \ {NodeOfEntry(e)}) \cup {NodeOfEntry(moved)}
          /\ tree'[NodeOfEntry(e)] = 0
    /\ q = 0 =>
          /\ tree' = tree
          /\ alloc_map' = alloc_map
          /\ tree'[NodeOfEntry(e)] = USED

\* realloc(null, n) returning q: what malloc(n) does
ReallocNull(n, q) ==
    LET r == alloc(tree, Max(n, MIN_ALIGN)) IN
    /\ aborted' = "no"
    /\ start_ptr' \in MapBases
    /\ tree' = r.tree
    /\ q = (IF r.ok THEN start_ptr' + r.off ELSE 0)
    /\ alloc_map' = IF r.ok
                    THEN alloc_map (+) SetToBag({Entry(r.off, Max(n, MIN_ALIGN))})
                    ELSE alloc_map

\* C14 (realloc): realloc of a live pointer finds the size of the old block
\* in the tree; when it succeeds the new block is disjoint from the old one,
\* exactly the old block is released and every other live allocation and
\* USED slot stays; when the new allocation fails it returns null, and the
\* tree and the live allocations, the old block among them, are as before;
\* realloc(null, n) does what malloc(n) does.
ReallocMoves ==
    [][ReallocStep =>
          IF call'[1].ptr = 0
          THEN ReallocNull(call'[1].size, call'[1].ret)
          ELSE \E e \in BagToSet(alloc_map) :
                  /\ start_ptr + e.off = call'[1].ptr
                  /\ ReallocLive(e, call'[1].size, call'[1].ret)]_vars

\* realloc moved a live block while another allocation was live
ReallocWitness ==
    /\ call[1].op = "realloc"
    /\ call[1].ptr # 0
    /\ call[1].ret # 0
    /\ call[1].ret # call[1].ptr
    /\ \E e \in BagToSet(alloc_map) : start_ptr + e.off # call[1].ret
    /\ \A e \in BagToSet(alloc_map) : start_ptr + e.off # call[1].ptr

\* the internal nodes: those that have children
InternalNodes == 1..(LEAF_LEN - 1)

\* the value the push-up rule gives a node whose children hold a and b
Rule(a, b) == Min(a, b) + (IF a # 0 \/ b # 0 THEN 1 ELSE 0)

\* C15 (push-up invariant): every internal node that is not marked USED
\* holds min(a, b) + (1 if a # 0 or b # 0), for the values a and b of its
\* children, compared as stored bytes with USED = 0x80.
PushUpInvariant ==
    \A i \in InternalNodes :
        tree[i] # USED => tree[i] = Rule(tree[2 * i], tree[2 * i + 1])

\* a node over a fully allocated subtree and a partly free one: its children
\* hold a value above USED and a level value
PushUpWitness ==
    \E i \in InternalNodes :
        /\ tree[i] # USED
        /\ tree[2 * i] > USED
        /\ tree[2 * i + 1] > 0
        /\ tree[2 * i + 1] < USED

\* the levels a request can map to
Levels == 1..H

\* the byte ranges [lo, hi) of the blocks of the allocations of m
Blocks(m) == {[lo |-> e.off, hi |-> e.off + BlockBytes(e.size)] : e \in BagToSet(m)}

\* a node of depth lvl, the k-th of width w, holds no byte of the ranges bs
HasFree(lvl, bs) ==
    \E w \in {BlockSize(lvl)} :
    \E k \in 0..(Pow2(lvl) - 1) :
        \A b \in bs : b.hi <= k * w \/ (k + 1) * w <= b.lo

\* C16 (allocation completeness): for every level lvl a request can map to,
\* tree[1] > lvl exactly when no node of depth lvl is free of live
\* allocations, and an alloc of a size of that level fails exactly then;
\* tree[1] = 0 exactly when no allocation is live.
Completeness ==
    /\ \E bs \in {Blocks(alloc_map)} :
          \A lvl \in Levels : tree[1] > lvl <=> ~HasFree(lvl, bs)
    /\ tree[1] = 0 <=> alloc_map = EmptyBag
    /\ (last.op = "alloc" /\ RoundUp(Min(last.size, MAX_SIZE)) < MAX_SIZE) =>
          \E lvl \in {ReqLevel(last.size)} :
             /\ last.res = "Err" <=> ~HasFree(lvl, Blocks(MapBeforeAlloc))
             /\ last.res = "Err" <=> before[1] > lvl

\* a request failed although as many bytes as its block takes were free, in
\* pieces
CompletenessWitness ==
    /\ last.op = "alloc"
    /\ last.res = "Err"
    /\ last.size <= MAX_SIZE \div 2
    /\ \E a, b \in NodesAt(H) :
          /\ a # b
          /\ FreeNode(a, alloc_map)
          /\ FreeNode(b, alloc_map)
    /\ BlockBytes(last.size) = 2 * U

\* (2^H + off/U) >> (H - lvl), for the level of the recorded size
OwningNode(e) == (Pow2(H) + e.off \div U) \div Pow2(H - ReqLevel(e.size))

Owners == {OwningNode(e) : e \in BagToSet(alloc_map)}

\* the proper ancestors of node n
Ancestors(n) == {n \div Pow2(k) : k \in 1..Depth(n)}

\* USED sits on the owning nodes of the live allocations and nowhere else;
\* no proper ancestor of a USED node is USED, and every node below a USED
\* node holds 0; no dealloc of a live allocation failed its assertion
UsedPlacement ==
    /\ UsedNodes(tree) = Owners
    /\ \A n \in AllNodes :
          (\E a \in Ancestors(n) : tree[a] = USED) => tree[n] = 0
    /\ last.res # "Panic"

\* C17 as stated (USED placement): tree[n] = USED exactly for the owning
\* nodes of the live allocations, nothing above a USED node is USED and
\* everything below it is 0, a dealloc of a live allocation with its
\* recorded size passes the assertion, and the root is never USED.
UsedNeverAtRoot == UsedPlacement /\ tree[1] # USED

\* C17 as amended: the placement holds in every heap; the root is never USED
\* in a heap of height H >= 1, and in a heap of height 0, whose only node is
\* the root, the root is USED exactly while the one block is live.
UsedOnOwners ==
    /\ UsedPlacement
    /\ H >= 1 => tree[1] # USED
    /\ H = 0 => (tree[1] = USED <=> alloc_map # EmptyBag)

\* live blocks of two depths, one of them below an internal node that is not
\* the root, after a dealloc
UsedOnOwnersWitness ==
    /\ last.op = "dealloc"
    /\ last.res = "Ok"
    /\ \E a, b \in Owners : Depth(a) = 1 /\ Depth(b) > 1

\* C19 (monotonic root): a successful alloc leaves tree[1] at least what it
\* was, and a dealloc of a live allocation leaves tree[1] at most what it
\* was, compared as stored bytes.
MonotonicRoot ==
    /\ LastAllocOk => tree[1] >= before[1]
    /\ (last.op = "dealloc" /\ last.res = "Ok") => tree[1] <= before[1]

\* a dealloc took the root from a value above USED down to a level value
MonotonicRootWitness ==
    /\ last.op = "dealloc"
    /\ last.res = "Ok"
    /\ before[1] > USED
    /\ tree[1] > 0
    /\ tree[1] < USED

\* the tree that holds USED on the nodes `marked` and 0 elsewhere, with the
\* push-up rule applied to the unmarked internal nodes of depth d, d - 1,
\* ..., 0 in turn
RECURSIVE Settle(_, _, _)
Settle(t, d, marked) ==
    IF d < 0
    THEN t
    ELSE Settle([n \in DOMAIN t |->
                    IF n \in NodesAt(d) /\ n \notin marked
                    THEN Rule(t[2 * n], t[2 * n + 1])
                    ELSE t[n]],
                d - 1, marked)

\* the tree the live blocks on the nodes `marked` determine
TreeOf(marked) ==
    Settle([n \in 0..(TreeLen - 1) |-> IF n \in marked THEN USED ELSE 0],
           H - 1, marked)

\* C20 (history independence): the tree is a function of the live blocks:
\* in every state reached by any sequence of alloc and dealloc, each slot
\* holds the value that the set of live (offset, level) blocks determines.
HistoryIndependent == tree = TreeOf(Owners)

\* live blocks that no sequence of allocs alone leaves: the first leaf is
\* free below a live one
HistoryWitness ==
    /\ last.op = "dealloc"
    /\ last.res = "Ok"
    /\ alloc_map # EmptyBag
    /\ FreeNode(Pow2(H), alloc_map)
    /\ ~FreeNode(Pow2(H) + 1, alloc_map)

\* the nodes from the leaf of offset off up to the root
PathUp(off) == {(Pow2(H) + off \div U) \div Pow2(k) : k \in 0..H}

\* what the auto-sized queries answer in the current tree
AutoSized ==
    /\ \A e \in BagToSet(alloc_map) :
          /\ owner_of(tree, e.off) = NodeOfEntry(e)
          /\ alloc_size_of(tree, e.off) =
                [ok |-> TRUE, size |-> U * Pow2(H - ReqLevel(e.size))]
          /\ dealloc_auto_size(tree, e.off) =
                [ok |-> TRUE, tree |-> dealloc(tree, e.off, e.size).tree]
    /\ \A off \in Offsets :
          (\A n \in PathUp(off) : tree[n] # USED) =>
              /\ ~alloc_size_of(tree, off).ok
              /\ ~dealloc_auto_size(tree, off).ok
              /\ \A b \in Blocks(alloc_map) : off < b.lo \/ b.hi <= off

\* a step that is free(p) of a pointer that is not null
FreeStep ==
    /\ call'[1].op = "free"
    /\ call'[1].ptr # 0
    /\ alloc_map' # alloc_map

\* C18 (auto-sized query): for every live allocation the walk up from the
\* leaf of its offset stops at the node alloc marked, alloc_size_of returns
\* U * 2^(H - lvl) for its level, and dealloc_auto_size leaves the tree that
\* dealloc with the recorded size leaves, which is the tree free leaves; an
\* offset with no USED node on its path to the root is reported not live,
\* and lies in no live block.
AutoSizedQuery ==
    /\ []AutoSized
    /\ [][FreeStep =>
            \E e \in BagToSet(alloc_map) :
               /\ start_ptr + e.off = call'[1].ptr
               /\ tree' = dealloc(tree, e.off, e.size).tree
               /\ aborted' = "no"]_vars

\* free has released a block while an allocation of more than one unit,
\* whose owning node is above its leaf, stays live
AutoSizedWitness ==
    /\ call[1].op = "free"
    /\ call[1].ptr # 0
    /\ \E e \in BagToSet(alloc_map) : BlockBytes(e.size) > U
    /\ \E off \in Offsets : \A n \in PathUp(off) : tree[n] # USED

====
